---- MODULE Spec2Model ----
(***************************************************************************)
(* Model of kasa_helper.py: the command-line adapter that queries Kasa     *)
(* devices through the python-kasa library and prints one JSON object.     *)
(*                                                                         *)
(* Python values are modelled as follows.                                  *)
(*   - an object with optional attributes (a kasa Device) and a dict are   *)
(*     functions from names to values; hasattr / `in` is membership in     *)
(*     DOMAIN;                                                             *)
(*   - None is the record NoneVal (for a device_id, the name <<"None">>);  *)
(*   - a string that the code searches or lower-cases is a tuple of        *)
(*     one-character strings; an address or identifier is a tuple of atoms;*)
(*   - a command-line argument is the tuple of its comma-separated         *)
(*     segments, each segment a tuple of atoms (" " is whitespace, any     *)
(*     other atom a run of non-blank, non-comma characters);               *)
(*   - a number is a reduced fraction [num, den].                          *)
(***************************************************************************)
EXTENDS Integers, Sequences, FiniteSets, TLC

VARIABLES
    argv,        \* sys.argv, each argument a tuple of segments
    lookups,     \* what each directed lookup made so far has met, in call order
    pc,          \* position of main
    exc,         \* the exception in flight ("none" when there is none)
    timeout,     \* local `timeout` of main
    ips,         \* local `ips` (or the one `ip`) of main
    found,       \* discover_devices: items of the dict Discover.discover returned
    idx,         \* loop position in the batch being processed
    devices,     \* accumulator of the batch (devices / results)
    stdout,      \* the objects printed on standard output
    stderr,      \* the lines printed on standard error
    exitCode,    \* the process exit code once the process has ended
    dev,         \* pure-function specifications: the input under test
    out          \* pure-function specifications: the result

vars == <<argv, lookups, pc, exc, timeout, ips, found, idx, devices,
          stdout, stderr, exitCode, dev, out>>

mainVars == <<argv, lookups, exc, timeout, ips, found, idx, devices,
              stdout, stderr, exitCode>>

(***************************************************************************)
(* Python helpers                                                          *)
(***************************************************************************)
NoneVal == [isNone |-> TRUE]

hasattr(obj, name) == name \in DOMAIN obj

getattr(obj, name, default) == IF name \in DOMAIN obj THEN obj[name] ELSE default

\* bool(x) for the values a flag attribute takes
Truthy(v) == v = TRUE

\* `sub in s` for strings
Contains(sub, s) ==
    \E i \in 0..(Len(s) - Len(sub)) : SubSeq(s, i + 1, i + Len(sub)) = sub

LowerChar(c) ==
    CASE c = "B" -> "b" [] c = "D" -> "d" [] c = "L" -> "l" [] c = "P" -> "p"
      [] c = "S" -> "s" [] c = "U" -> "u" [] c = "W" -> "w" [] OTHER -> c

\* str.lower()
Lower(s) == [i \in 1..Len(s) |-> LowerChar(s[i])]

(***************************************************************************)
(* get_device_type                                                         *)
(***************************************************************************)
sStrip == <<"s", "t", "r", "i", "p">>
sBulb == <<"b", "u", "l", "b">>
sPlug == <<"p", "l", "u", "g">>
sDimmer == <<"d", "i", "m", "m", "e", "r">>
sUnknown == <<"u", "n", "k", "n", "o", "w", "n">>

\* hasattr(device, name) and device.name
Flag(device, name) == hasattr(device, name) /\ Truthy(device[name])

get_device_type_nolower(device) ==
    LET device_type == IF hasattr(device, "device_type")
                       THEN device["device_type"] ELSE sUnknown
    IN  IF Flag(device, "is_strip") THEN "power_strip"
        ELSE IF Contains(sStrip, device_type) THEN "power_strip"
        ELSE IF Flag(device, "is_bulb") THEN
            IF Flag(device, "is_color") THEN "bulb_color"
            ELSE IF Flag(device, "is_variable_color_temp") THEN "bulb_tunable"
            ELSE IF Flag(device, "is_dimmable") THEN "bulb_dimmable"
            ELSE "bulb"
        ELSE IF Contains(sBulb, device_type) THEN "bulb"
        ELSE IF Flag(device, "is_plug") THEN
            IF Flag(device, "has_emeter") THEN "plug_energy" ELSE "plug"
        ELSE IF Contains(sPlug, device_type) THEN
            IF Flag(device, "has_emeter") THEN "plug_energy" ELSE "plug"
        ELSE IF Flag(device, "is_dimmer") THEN "dimmer"
        ELSE IF Contains(sDimmer, device_type) THEN "dimmer"
        ELSE "plug"

get_device_type_dimfirst(device) ==
    LET device_type == IF hasattr(device, "device_type")
                       THEN Lower(device["device_type"]) ELSE sUnknown
    IN  IF Flag(device, "is_strip") THEN "power_strip"
        ELSE IF Contains(sStrip, device_type) THEN "power_strip"
        ELSE IF Flag(device, "is_bulb") THEN
            IF Flag(device, "is_dimmable") THEN "bulb_dimmable"
            ELSE IF Flag(device, "is_variable_color_temp") THEN "bulb_tunable"
            ELSE IF Flag(device, "is_color") THEN "bulb_color"
            ELSE "bulb"
        ELSE IF Contains(sBulb, device_type) THEN "bulb"
        ELSE IF Flag(device, "is_plug") THEN
            IF Flag(device, "has_emeter") THEN "plug_energy" ELSE "plug"
        ELSE IF Contains(sPlug, device_type) THEN
            IF Flag(device, "has_emeter") THEN "plug_energy" ELSE "plug"
        ELSE IF Flag(device, "is_dimmer") THEN "dimmer"
        ELSE IF Contains(sDimmer, device_type) THEN "dimmer"
        ELSE "plug"

get_device_type(device) ==
    LET device_type == IF hasattr(device, "device_type")
                       THEN Lower(device["device_type"]) ELSE sUnknown
    IN  IF Flag(device, "is_strip") THEN "power_strip"
        ELSE IF Contains(sStrip, device_type) THEN "power_strip"
        ELSE IF Flag(device, "is_bulb") THEN
            IF Flag(device, "is_color") THEN "bulb_color"
            ELSE IF Flag(device, "is_variable_color_temp") THEN "bulb_tunable"
            ELSE IF Flag(device, "is_dimmable") THEN "bulb_dimmable"
            ELSE "bulb"
        ELSE IF Contains(sBulb, device_type) THEN "bulb"
        ELSE IF Flag(device, "is_plug") THEN
            IF Flag(device, "has_emeter") THEN "plug_energy" ELSE "plug"
        ELSE IF Contains(sPlug, device_type) THEN
            IF Flag(device, "has_emeter") THEN "plug_energy" ELSE "plug"
        ELSE IF Flag(device, "is_dimmer") THEN "dimmer"
        ELSE IF Contains(sDimmer, device_type) THEN "dimmer"
        ELSE "plug"

(***************************************************************************)
(* Numbers                                                                 *)
(***************************************************************************)
RECURSIVE Gcd(_, _)
Gcd(a, b) == IF b = 0 THEN a ELSE Gcd(b, a % b)

Num(n) == [num |-> n, den |-> 1]

\* x / n  (true division)
TrueDiv(x, n) ==
    LET g == Gcd(x.num, x.den * n)
    IN  IF x.num = 0 THEN Num(0)
        ELSE [num |-> x.num \div g, den |-> (x.den * n) \div g]

\* the literal 1000 of the unit conversion
MilliPerUnit == 1000

(***************************************************************************)
(* device_to_dict.  An attribute that may be None holds NoneVal or the     *)
(* boxed value [v |-> value]; hw_info is always a dict.                    *)
(***************************************************************************)
Box(x) == [v |-> x]

\* hasattr(device, name) and device.name is not None
HasValue(obj, name) == hasattr(obj, name) /\ obj[name] # NoneVal

\* the keys added to the result when the condition holds
Opt(cond, keys) == IF cond THEN keys ELSE <<>>

\* a device_id that is None
NoId == <<"None">>

\* getattr(device, 'device_id', None) or device.host
DeviceId(device) ==
    LET id == getattr(device, "device_id", NoId)
    IN  IF id = NoId \/ id = <<>> THEN device["host"] ELSE id

\* one element of result["children"]
ChildDict(child) ==
    [id |-> getattr(child, "device_id",
                    IF hasattr(child, "host") THEN child["host"] ELSE <<"unknown">>),
     alias |-> getattr(child, "alias", "Unknown"),
     isOn |-> getattr(child, "is_on", FALSE)]

device_to_dict(device) ==
    [deviceId |-> DeviceId(device),
     alias |-> getattr(device, "alias", "Unknown"),
     deviceType |-> get_device_type(device),
     model |-> getattr(device, "model", "Unknown"),
     host |-> device["host"],
     isOn |-> getattr(device, "is_on", FALSE),
     hasEnergyMonitoring |-> getattr(device, "has_emeter", FALSE)]
    @@ Opt(HasValue(device, "mac") /\ device["mac"].v # <<>>,
           [mac |-> device["mac"].v])
    @@ Opt(HasValue(device, "hw_info") /\ "sw_ver" \in DOMAIN device["hw_info"].v,
           [fwVersion |-> device["hw_info"].v["sw_ver"]])
    @@ Opt(HasValue(device, "hw_info") /\ "hw_ver" \in DOMAIN device["hw_info"].v,
           [hwVersion |-> device["hw_info"].v["hw_ver"]])
    @@ Opt(HasValue(device, "rssi"), [rssi |-> device["rssi"].v])
    @@ Opt(HasValue(device, "led"), [ledOff |-> ~ device["led"].v])
    @@ Opt(HasValue(device, "brightness"), [brightness |-> device["brightness"].v])
    @@ Opt(HasValue(device, "color_temp") /\ device["color_temp"].v # 0,
           [colorTemp |-> device["color_temp"].v])
    @@ Opt(HasValue(device, "hsv") /\ Len(device["hsv"].v) > 0,
           [hue |-> IF Len(device["hsv"].v) > 0 THEN device["hsv"].v[1] ELSE NoneVal,
            saturation |-> IF Len(device["hsv"].v) > 1 THEN device["hsv"].v[2]
                           ELSE NoneVal])
    @@ Opt(HasValue(device, "children") /\ Len(device["children"].v) > 0,
           [children |-> [i \in 1..Len(device["children"].v) |->
                            ChildDict(device["children"].v[i])]])

(***************************************************************************)
(* get_energy: the reading built once the device has been updated          *)
(***************************************************************************)
\* dict.get(key, default)
DictGet(d, key, default) == IF key \in DOMAIN d THEN d[key] ELSE default

\* a mutant: the base-unit value wins only when it is non-zero
RealtimeField_nonzero(realtime, base, milli) ==
    LET m == IF milli \in DOMAIN realtime
             THEN TrueDiv(DictGet(realtime, milli, Num(0)), MilliPerUnit)
             ELSE Num(0)
    IN  IF base \in DOMAIN realtime /\ realtime[base] # Num(0)
        THEN realtime[base] ELSE m

\* realtime.get(base, realtime.get(milli, 0) / 1000 if milli in realtime else 0)
RealtimeField(realtime, base, milli) ==
    DictGet(realtime, base,
            IF milli \in DOMAIN realtime
            THEN TrueDiv(DictGet(realtime, milli, Num(0)), MilliPerUnit)
            ELSE Num(0))

energy_of(device) ==
    IF ~ getattr(device, "has_emeter", FALSE) THEN NoneVal
    ELSE
      LET hasRt == hasattr(device, "emeter_realtime")
                   /\ DOMAIN device["emeter_realtime"] # {}
          realtime == device["emeter_realtime"]
      IN  [deviceId |-> DeviceId(device),
           alias |-> getattr(device, "alias", "Unknown"),
           currentPower |-> IF hasRt THEN RealtimeField(realtime, "power", "power_mw")
                            ELSE Num(0),
           voltage |-> IF hasRt THEN RealtimeField(realtime, "voltage", "voltage_mv")
                       ELSE Num(0),
           current |-> IF hasRt THEN RealtimeField(realtime, "current", "current_ma")
                       ELSE Num(0),
           todayEnergy |-> IF hasattr(device, "emeter_today")
                              /\ device["emeter_today"] # NoneVal
                           THEN device["emeter_today"] ELSE Num(0),
           monthEnergy |-> IF hasattr(device, "emeter_this_month")
                              /\ device["emeter_this_month"] # NoneVal
                           THEN device["emeter_this_month"] ELSE Num(0),
           totalEnergy |-> IF hasRt THEN RealtimeField(realtime, "total", "total_wh")
                           ELSE Num(0)]

(***************************************************************************)
(* Inputs of the pure-function specifications                              *)
(***************************************************************************)
\* names of kasa.DeviceType members, and two made-up ones that match two checks
TypeNames ==
    { <<"P", "l", "u", "g">>,
      <<"B", "u", "l", "b">>,
      <<"S", "t", "r", "i", "p">>,
      <<"S", "t", "r", "i", "p", "S", "o", "c", "k", "e", "t">>,
      <<"D", "i", "m", "m", "e", "r">>,
      <<"L", "i", "g", "h", "t", "S", "t", "r", "i", "p">>,
      <<"W", "a", "l", "l", "S", "w", "i", "t", "c", "h">>,
      <<"U", "n", "k", "n", "o", "w", "n">>,
      <<"B", "u", "l", "b", "P", "l", "u", "g">>,
      <<"P", "l", "u", "g", "D", "i", "m", "m", "e", "r">> }

FlagNames == {"is_strip", "is_bulb", "is_color", "is_variable_color_temp",
              "is_dimmable", "is_plug", "has_emeter", "is_dimmer"}

\* every device whose flags are each absent, false or true, with or without a type
TypeDevices ==
    LET flagSets == UNION {[S -> BOOLEAN] : S \in SUBSET FlagNames}
    IN  flagSets \cup
        {f @@ [device_type |-> t] : f \in flagSets, t \in TypeNames}

RealtimeKeys == {"power", "power_mw", "voltage", "voltage_mv",
                 "current", "current_ma", "total", "total_wh"}

BaseKeys == {"power", "voltage", "current", "total"}

RealtimeValues(key) == IF key \in BaseKeys THEN {Num(0), Num(2)}
                       ELSE {Num(0), Num(1500)}

RealtimeDicts ==
    UNION {{r \in [S -> {Num(0), Num(2), Num(1500)}] :
              \A k \in S : r[k] \in RealtimeValues(k)} : S \in SUBSET RealtimeKeys}

EnergyDevices ==
    {[host |-> <<"h1">>, device_id |-> <<"A">>, has_emeter |-> TRUE,
      emeter_realtime |-> r] : r \in RealtimeDicts}
    \cup {[host |-> <<"h1">>, device_id |-> <<"A">>, has_emeter |-> e]
             : e \in BOOLEAN}
    \cup {[host |-> <<"h1">>, has_emeter |-> TRUE, emeter_today |-> t,
           emeter_this_month |-> m] : t, m \in {NoneVal, Num(3)}}

IdleMain ==
    /\ argv = <<>> /\ lookups = <<>> /\ exc = "none" /\ timeout = 0
    /\ ips = <<>> /\ found = <<>> /\ idx = 0 /\ devices = <<>>
    /\ stdout = <<>> /\ stderr = <<>> /\ exitCode = -1

InitType == IdleMain /\ pc = "resolve" /\ dev \in TypeDevices /\ out = "none"

ResolveType ==
    /\ pc = "resolve"
    /\ out' = get_device_type(dev)
    /\ pc' = "resolved"
    /\ UNCHANGED <<mainVars, dev>>

SpecType == InitType /\ [][ResolveType]_vars

InitEnergy == IdleMain /\ pc = "read" /\ dev \in EnergyDevices /\ out = "none"

ReadEnergy ==
    /\ pc = "read"
    /\ out' = energy_of(dev)
    /\ pc' = "readDone"
    /\ UNCHANGED <<mainVars, dev>>

SpecEnergy == InitEnergy /\ [][ReadEnergy]_vars

(***************************************************************************)
(* Claims about get_device_type (SpecType)                                 *)
(***************************************************************************)
DeviceTypes == {"power_strip", "bulb_color", "bulb_tunable", "bulb_dimmable",
                "bulb", "plug_energy", "plug", "dimmer"}

\* the flag of the device under test is present and true
On(name) == name \in DOMAIN dev /\ dev[name] = TRUE

\* the lower-cased type name of the device under test has `word` in it
TypeHas(word) ==
    /\ "device_type" \in DOMAIN dev
    /\ \E i \in 1..Len(dev["device_type"]) :
         /\ i + Len(word) - 1 <= Len(dev["device_type"])
         /\ \A j \in 1..Len(word) : LowerChar(dev["device_type"][i + j - 1]) = word[j]

StripRule == On("is_strip") \/ TypeHas(sStrip)
BulbFlagRule == ~ StripRule /\ On("is_bulb")
BulbNameRule == ~ StripRule /\ ~ On("is_bulb") /\ TypeHas(sBulb)
PlugRule == /\ ~ StripRule /\ ~ On("is_bulb") /\ ~ TypeHas(sBulb)
            /\ (On("is_plug") \/ TypeHas(sPlug))
DimmerRule == /\ ~ StripRule /\ ~ On("is_bulb") /\ ~ TypeHas(sBulb)
              /\ ~ On("is_plug") /\ ~ TypeHas(sPlug)
              /\ (On("is_dimmer") \/ TypeHas(sDimmer))
DefaultRule == /\ ~ StripRule /\ ~ On("is_bulb") /\ ~ TypeHas(sBulb)
               /\ ~ On("is_plug") /\ ~ TypeHas(sPlug)
               /\ ~ On("is_dimmer") /\ ~ TypeHas(sDimmer)

\* C1: deviceType is resolved by the first matching rule of the fixed order
\* strip, bulb flag (color, tunable, dimmable, plain), bulb name, plug (with the
\* energy check), dimmer, default plug; the result is one of the eight values.
C1_ResolutionOrder ==
    pc = "resolved" =>
        /\ out \in DeviceTypes
        /\ StripRule => out = "power_strip"
        /\ BulbFlagRule /\ On("is_color") => out = "bulb_color"
        /\ BulbFlagRule /\ ~ On("is_color") /\ On("is_variable_color_temp")
              => out = "bulb_tunable"
        /\ BulbFlagRule /\ ~ On("is_color") /\ ~ On("is_variable_color_temp")
              /\ On("is_dimmable") => out = "bulb_dimmable"
        /\ BulbFlagRule /\ ~ On("is_color") /\ ~ On("is_variable_color_temp")
              /\ ~ On("is_dimmable") => out = "bulb"
        /\ BulbNameRule => out = "bulb"
        /\ PlugRule /\ On("has_emeter") => out = "plug_energy"
        /\ PlugRule /\ ~ On("has_emeter") => out = "plug"
        /\ DimmerRule => out = "dimmer"
        /\ DefaultRule => out = "plug"

\* a dimmable bulb whose type name is BulbPlug, with metering, resolved by the
\* bulb flag before the plug rule
C1_Witness ==
    /\ pc = "resolved" /\ out = "bulb_dimmable"
    /\ BulbFlagRule /\ TypeHas(sPlug) /\ On("has_emeter") /\ On("is_dimmer")

\* C2 as stated: is_bulb and is_color both true always gives bulb_color
C2_Original ==
    pc = "resolved" /\ On("is_bulb") /\ On("is_color") => out = "bulb_color"

\* C2 as amended: with is_bulb and is_color both true the result is bulb_color
\* unless the strip rule matches (then it is power_strip); it is never bulb.
C2_BulbColor ==
    pc = "resolved" /\ On("is_bulb") /\ On("is_color") =>
        /\ ~ StripRule => out = "bulb_color"
        /\ StripRule => out = "power_strip"
        /\ out # "bulb"

C2_Witness ==
    /\ pc = "resolved" /\ On("is_bulb") /\ On("is_color") /\ ~ StripRule
    /\ On("is_dimmable") /\ On("is_variable_color_temp") /\ On("is_plug")
    /\ out = "bulb_color"

(***************************************************************************)
(* Claim about the unit normalisation of get_energy (SpecEnergy)           *)
(***************************************************************************)
FieldPairs ==
    { [base |-> "power", milli |-> "power_mw", field |-> "currentPower"],
      [base |-> "voltage", milli |-> "voltage_mv", field |-> "voltage"],
      [base |-> "current", milli |-> "current_ma", field |-> "current"],
      [base |-> "total", milli |-> "total_wh", field |-> "totalEnergy"] }

\* the raw reading of the device under test ({} when it has none)
Raw == IF "emeter_realtime" \in DOMAIN dev THEN dev["emeter_realtime"] ELSE <<>>

\* C3: per realtime field, a present base-unit key gives its value unchanged
\* (zero included, milli key or not); only the milli key gives milli / 1000;
\* neither key gives 0.
C3_UnitPrecedence ==
    pc = "readDone" /\ out # NoneVal =>
        \A p \in FieldPairs :
            /\ p.base \in DOMAIN Raw => out[p.field] = Raw[p.base]
            /\ p.base \notin DOMAIN Raw /\ p.milli \in DOMAIN Raw =>
                 /\ out[p.field].den > 0
                 /\ out[p.field].num * Raw[p.milli].den * 1000
                       = Raw[p.milli].num * out[p.field].den
            /\ p.base \notin DOMAIN Raw /\ p.milli \notin DOMAIN Raw =>
                 out[p.field] = Num(0)

\* power = 0 next to power_mw = 1500 gives 0, and voltage_mv = 1500 alone 3/2
C3_Witness ==
    /\ pc = "readDone" /\ out # NoneVal
    /\ "power" \in DOMAIN Raw /\ Raw["power"] = Num(0)
    /\ "power_mw" \in DOMAIN Raw /\ Raw["power_mw"] = Num(1500)
    /\ out["currentPower"] = Num(0)
    /\ "voltage" \notin DOMAIN Raw
    /\ "voltage_mv" \in DOMAIN Raw /\ Raw["voltage_mv"] = Num(1500)
    /\ out["voltage"] = [num |-> 3, den |-> 2]

(***************************************************************************)
(* Command-line arguments                                                  *)
(***************************************************************************)
\* the longest comma-separated list given as an argument
MaxSegs == 3

\* timeout = ... else 10
DefaultTimeout == 10

RECURSIVE LStrip(_)
LStrip(s) == IF s # <<>> /\ Head(s) = " " THEN LStrip(Tail(s)) ELSE s

RECURSIVE RStrip(_)
RStrip(s) == IF s # <<>> /\ s[Len(s)] = " " THEN RStrip(SubSeq(s, 1, Len(s) - 1))
             ELSE s

\* str.strip()
Strip(s) == RStrip(LStrip(s))

\* the argument as one string: its segments with "," between them
RECURSIVE JoinArg(_)
JoinArg(arg) == IF Len(arg) = 1 THEN arg[1]
                ELSE arg[1] \o <<",">> \o JoinArg(Tail(arg))

\* [ip.strip() for ip in arg.split(",") if ip.strip()]
ParseIps(arg) ==
    LET stripped == [i \in 1..Len(arg) |-> Strip(arg[i])]
    IN  SelectSeq(stripped, LAMBDA s : s # <<>>)

NumAtoms == {"7"}

\* int(arg) does not raise ValueError
IntOk(arg) == LET s == Strip(JoinArg(arg)) IN Len(s) = 1 /\ s[1] \in NumAtoms

\* int(arg)
IntOf(arg) == LET s == Strip(JoinArg(arg)) IN CASE s[1] = "7" -> 7

Argc == Len(argv)

\* sys.argv[i]
SysArgv(i) == argv[i + 1]

command == JoinArg(SysArgv(1))

\* a mutant: an off-by-one in the argument count test
MissingArg_offByOne(n) == Argc <= n

\* len(sys.argv) < n
MissingArg(n) == Argc < n

(***************************************************************************)
(* The library: what a lookup or a broadcast can meet                      *)
(***************************************************************************)
tPlug == <<"P", "l", "u", "g">>
tBulb == <<"B", "u", "l", "b">>
tStrip == <<"S", "t", "r", "i", "p">>

Fixtures == {"plugA", "bulbB", "stripS", "noid"}

\* the updated Device object that answers at address ip
Fixture(name, ip) ==
    CASE name = "plugA" ->
           [host |-> ip, device_id |-> <<"A">>, alias |-> "Desk", model |-> "KP115",
            is_on |-> TRUE, has_emeter |-> TRUE, is_plug |-> TRUE,
            is_bulb |-> FALSE, device_type |-> tPlug,
            mac |-> Box(<<"AA:01">>), rssi |-> Box(-50), led |-> Box(TRUE),
            hw_info |-> Box([sw_ver |-> "1.0.2", hw_ver |-> "1.0"]),
            emeter_realtime |-> [power_mw |-> Num(1500), voltage |-> Num(2)],
            emeter_today |-> Num(3), emeter_this_month |-> NoneVal]
      [] name = "bulbB" ->
           [host |-> ip, device_id |-> <<"B">>, alias |-> "Lamp", model |-> "KL130",
            is_on |-> FALSE, has_emeter |-> FALSE, is_bulb |-> TRUE,
            is_color |-> TRUE, is_dimmable |-> TRUE, device_type |-> tBulb,
            mac |-> Box(<<>>), rssi |-> NoneVal, hw_info |-> Box([hw_ver |-> "2.0"]),
            brightness |-> Box(80), color_temp |-> Box(0), hsv |-> Box(<<120, 75>>)]
      [] name = "stripS" ->
           [host |-> ip, device_id |-> <<"S">>, alias |-> "Strip", model |-> "HS300",
            is_on |-> TRUE, has_emeter |-> FALSE, is_strip |-> TRUE,
            device_type |-> tStrip, led |-> Box(FALSE), hsv |-> Box(<<>>),
            children |-> Box(<<[device_id |-> <<"S_0">>, alias |-> "Outlet 1",
                                is_on |-> TRUE],
                               [host |-> ip, is_on |-> FALSE]>>)]
      [] name = "noid" ->
           [host |-> ip, device_id |-> NoId, is_plug |-> TRUE,
            children |-> Box(<<>>)]

\* Discover.discover_single raises, returns None or returns a device whose
\* update() raises or succeeds
Outcomes == {"raise_lookup", "none", "raise_update"} \cup Fixtures

BcastHosts == {<<"h1">>, <<"h2">>}

\* the dicts Discover.discover can return, as item lists in iteration order
Founds ==
    LET items == {[ip |-> h, o |-> o] : h \in BcastHosts,
                                       o \in {"raise_update"} \cup Fixtures}
    IN  {<<>>} \cup {<<a>> : a \in items}
        \cup {p \in items \X items : p[1].ip # p[2].ip}

(***************************************************************************)
(* get_device, get_energy                                                  *)
(***************************************************************************)
\* a mutant: the error object lacks the ip key
get_device_noip(ip, o) ==
    IF o = "raise_lookup" THEN [error |-> "lookup failed"]
    ELSE IF o = "none" THEN NoneVal
    ELSE IF o = "raise_update" THEN [error |-> "update failed"]
    ELSE device_to_dict(Fixture(o, ip))

get_device(ip, o) ==
    IF o = "raise_lookup" THEN [error |-> "lookup failed", ip |-> ip]
    ELSE IF o = "none" THEN NoneVal
    ELSE IF o = "raise_update" THEN [error |-> "update failed", ip |-> ip]
    ELSE device_to_dict(Fixture(o, ip))

get_energy(ip, o) ==
    IF o = "raise_lookup" THEN [error |-> "lookup failed", ip |-> ip]
    ELSE IF o = "none" THEN NoneVal
    ELSE IF o = "raise_update" THEN [error |-> "update failed", ip |-> ip]
    ELSE energy_of(Fixture(o, ip))

\* a mutant: the error check is forgotten
IsSuccess_noErrorCheck(result) == result # NoneVal

\* result and "error" not in result
IsSuccess(result) == result # NoneVal /\ "error" \notin DOMAIN result

\* result and "error" in result
IsError(result) == result # NoneVal /\ "error" \in DOMAIN result

\* a mutant: a bare except, which catches SystemExit too
IsException_bare(e) == e # "none"

\* isinstance(e, Exception): what `except Exception` catches
IsException(e) == e \in {"ValueError"}

\* a mutant: success is reported whatever was obtained
TestReport_always(devs, byIp) ==
    [success |-> TRUE, devices |-> devs, count |-> Len(devs)]

\* the object the test command prints
TestReport(devs, byIp) ==
    IF devs # <<>>
    THEN [success |-> TRUE, devices |-> devs, count |-> Len(devs)]
    ELSE [success |-> FALSE,
          error |-> IF byIp THEN "No devices found at specified IPs"
                    ELSE "No devices discovered"]

(***************************************************************************)
(* main                                                                    *)
(***************************************************************************)
Word(w) == <<<<w>>>>

Script == Word("kasa_helper.py")

EmptyArg == <<<<>>>>

Segs == {<<"h1">>, <<" ", "h2">>, <<" ">>}

ArgLists == UNION {[1..n -> Segs] : n \in 1..MaxSegs}

CommandWords == {"discover", "get-device", "get-devices", "get-energy",
                 "get-all-energy", "test", "reboot"}

Argvs ==
    {<<Script>>}
    \cup {<<Script, Word(c)>> : c \in CommandWords}
    \cup {<<Script, Word(c), a>> :
            c \in CommandWords, a \in ArgLists \cup {Word("7"), EmptyArg}}
    \cup {<<Script, Word(c), a, b>> :
            c \in CommandWords, a \in {EmptyArg, Word("h1"), Word("7")},
            b \in {Word("7"), Word("h1")}}

Init ==
    /\ argv \in Argvs
    /\ lookups = <<>> /\ pc = "main" /\ exc = "none" /\ timeout = 0
    /\ ips = <<>> /\ found = <<>> /\ idx = 0 /\ devices = <<>>
    /\ stdout = <<>> /\ stderr = <<>> /\ exitCode = -1
    /\ dev = <<>> /\ out = "none"

\* if len(sys.argv) < 2: print the error object; sys.exit(1)
NoCommand ==
    /\ pc = "main" /\ MissingArg(2)
    /\ stdout' = Append(stdout, [error |-> "No command specified"])
    /\ exc' = "SystemExit"
    /\ pc' = "exit"
    /\ UNCHANGED <<argv, lookups, timeout, ips, found, idx, devices, stderr,
                   exitCode, dev, out>>

CmdDiscover ==
    /\ pc = "main" /\ ~ MissingArg(2) /\ command = <<"discover">>
    /\ IF Argc > 2 /\ ~ IntOk(SysArgv(2))
       THEN exc' = "ValueError" /\ pc' = "except" /\ UNCHANGED timeout
       ELSE /\ timeout' = IF Argc > 2 THEN IntOf(SysArgv(2)) ELSE DefaultTimeout
            /\ pc' = "discover_call" /\ UNCHANGED exc
    /\ UNCHANGED <<argv, lookups, ips, found, idx, devices, stdout, stderr,
                   exitCode, dev, out>>

\* discover_devices up to the loop: Discover.discover raises (the outer except
\* prints to stderr and the empty list is returned) or returns `found`
DiscoverCall ==
    /\ pc = "discover_call"
    /\ devices' = <<>>
    /\ \/ /\ stderr' = Append(stderr, [line |-> "json", error |-> "discover failed"])
          /\ pc' = "batch_ret"
          /\ UNCHANGED <<found, idx>>
       \/ /\ found' \in Founds
          /\ idx' = 1
          /\ pc' = "discover_loop"
          /\ UNCHANGED stderr
    /\ UNCHANGED <<argv, lookups, exc, timeout, ips, stdout, exitCode, dev, out>>

\* one iteration of `for ip, device in found.items()`
DiscoverStep ==
    /\ pc = "discover_loop" /\ idx <= Len(found)
    /\ LET ip == found[idx].ip
           o == found[idx].o
       IN  IF o = "raise_update"
           THEN /\ stderr' = Append(stderr, [line |-> "Error updating device",
                                             ip |-> ip, err |-> "update failed"])
                /\ UNCHANGED devices
           ELSE /\ devices' = Append(devices, device_to_dict(Fixture(o, ip)))
                /\ UNCHANGED stderr
    /\ idx' = idx + 1
    /\ UNCHANGED <<argv, lookups, pc, exc, timeout, ips, found, stdout,
                   exitCode, dev, out>>

DiscoverEnd ==
    /\ pc = "discover_loop" /\ idx > Len(found)
    /\ pc' = "batch_ret"
    /\ UNCHANGED <<mainVars, dev, out>>

CmdGetDevice ==
    /\ pc = "main" /\ ~ MissingArg(2) /\ command = <<"get-device">>
    /\ IF MissingArg(3)
       THEN /\ stdout' = Append(stdout, [error |-> "No IP specified"])
            /\ exc' = "SystemExit" /\ pc' = "except" /\ UNCHANGED ips
       ELSE /\ ips' = <<JoinArg(SysArgv(2))>>
            /\ pc' = "get_device_call" /\ UNCHANGED <<stdout, exc>>
    /\ UNCHANGED <<argv, lookups, timeout, found, idx, devices, stderr,
                   exitCode, dev, out>>

\* device = await get_device(ip); print(json.dumps({"device": device}))
GetDeviceCall ==
    /\ pc = "get_device_call"
    /\ \E o \in Outcomes :
         /\ lookups' = Append(lookups, [ip |-> ips[1], o |-> o])
         /\ stdout' = Append(stdout, [device |-> get_device(ips[1], o)])
    /\ pc' = "exit"
    /\ UNCHANGED <<argv, exc, timeout, ips, found, idx, devices, stderr,
                   exitCode, dev, out>>

CmdGetDevices ==
    /\ pc = "main" /\ ~ MissingArg(2) /\ command = <<"get-devices">>
    /\ IF MissingArg(3)
       THEN /\ stdout' = Append(stdout, [error |-> "No IPs specified"])
            /\ exc' = "SystemExit" /\ pc' = "except"
            /\ UNCHANGED <<ips, idx, devices>>
       ELSE /\ ips' = ParseIps(SysArgv(2))
            /\ idx' = 1 /\ devices' = <<>>
            /\ pc' = "get_devices_loop" /\ UNCHANGED <<stdout, exc>>
    /\ UNCHANGED <<argv, lookups, timeout, found, stderr, exitCode, dev, out>>

\* one iteration of `for ip in ips` in get_devices
GetDevicesStep ==
    /\ pc = "get_devices_loop" /\ idx <= Len(ips)
    /\ \E o \in Outcomes :
         LET result == get_device(ips[idx], o)
         IN  /\ lookups' = Append(lookups, [ip |-> ips[idx], o |-> o])
             /\ IF IsSuccess(result)
                THEN devices' = Append(devices, result) /\ UNCHANGED stderr
                ELSE IF IsError(result)
                THEN /\ stderr' = Append(stderr, [line |-> "Error for",
                                                  ip |-> ips[idx],
                                                  err |-> result.error])
                     /\ UNCHANGED devices
                ELSE UNCHANGED <<devices, stderr>>
    /\ idx' = idx + 1
    /\ UNCHANGED <<argv, pc, exc, timeout, ips, found, stdout, exitCode, dev, out>>

GetDevicesEnd ==
    /\ pc = "get_devices_loop" /\ idx > Len(ips)
    /\ pc' = "batch_ret"
    /\ UNCHANGED <<mainVars, dev, out>>

CmdGetEnergy ==
    /\ pc = "main" /\ ~ MissingArg(2) /\ command = <<"get-energy">>
    /\ IF MissingArg(3)
       THEN /\ stdout' = Append(stdout, [error |-> "No IP specified"])
            /\ exc' = "SystemExit" /\ pc' = "except" /\ UNCHANGED ips
       ELSE /\ ips' = <<JoinArg(SysArgv(2))>>
            /\ pc' = "get_energy_call" /\ UNCHANGED <<stdout, exc>>
    /\ UNCHANGED <<argv, lookups, timeout, found, idx, devices, stderr,
                   exitCode, dev, out>>

\* energy = await get_energy(ip); print(json.dumps({"energy": energy}))
GetEnergyCall ==
    /\ pc = "get_energy_call"
    /\ \E o \in Outcomes :
         /\ lookups' = Append(lookups, [ip |-> ips[1], o |-> o])
         /\ stdout' = Append(stdout, [energy |-> get_energy(ips[1], o)])
    /\ pc' = "exit"
    /\ UNCHANGED <<argv, exc, timeout, ips, found, idx, devices, stderr,
                   exitCode, dev, out>>

CmdGetAllEnergy ==
    /\ pc = "main" /\ ~ MissingArg(2) /\ command = <<"get-all-energy">>
    /\ IF MissingArg(3)
       THEN /\ stdout' = Append(stdout, [error |-> "No IPs specified"])
            /\ exc' = "SystemExit" /\ pc' = "except"
            /\ UNCHANGED <<ips, idx, devices>>
       ELSE /\ ips' = ParseIps(SysArgv(2))
            /\ idx' = 1 /\ devices' = <<>>
            /\ pc' = "get_all_energy_loop" /\ UNCHANGED <<stdout, exc>>
    /\ UNCHANGED <<argv, lookups, timeout, found, stderr, exitCode, dev, out>>

\* one iteration of `for ip in ips` in get_all_energy
GetAllEnergyStep ==
    /\ pc = "get_all_energy_loop" /\ idx <= Len(ips)
    /\ \E o \in Outcomes :
         LET result == get_energy(ips[idx], o)
         IN  /\ lookups' = Append(lookups, [ip |-> ips[idx], o |-> o])
             /\ IF IsSuccess(result)
                THEN devices' = Append(devices, result)
                ELSE UNCHANGED devices
    /\ idx' = idx + 1
    /\ UNCHANGED <<argv, pc, exc, timeout, ips, found, stdout, stderr,
                   exitCode, dev, out>>

GetAllEnergyEnd ==
    /\ pc = "get_all_energy_loop" /\ idx > Len(ips)
    /\ pc' = "batch_ret"
    /\ UNCHANGED <<mainVars, dev, out>>

\* the test command takes the IP list when sys.argv[2] is given and non-empty
TestByIp == Argc > 2 /\ JoinArg(SysArgv(2)) # <<>>

CmdTest ==
    /\ pc = "main" /\ ~ MissingArg(2) /\ command = <<"test">>
    /\ IF TestByIp
       THEN /\ ips' = ParseIps(SysArgv(2))
            /\ idx' = 1 /\ devices' = <<>>
            /\ pc' = "get_devices_loop" /\ UNCHANGED <<exc, timeout>>
       ELSE IF Argc > 3 /\ ~ IntOk(SysArgv(3))
       THEN /\ exc' = "ValueError" /\ pc' = "except"
            /\ UNCHANGED <<ips, idx, devices, timeout>>
       ELSE /\ timeout' = IF Argc > 3 THEN IntOf(SysArgv(3)) ELSE DefaultTimeout
            /\ pc' = "discover_call" /\ UNCHANGED <<ips, idx, devices, exc>>
    /\ UNCHANGED <<argv, lookups, found, stdout, stderr, exitCode, dev, out>>

CmdUnknown ==
    /\ pc = "main" /\ ~ MissingArg(2)
    /\ command \notin {<<"discover">>, <<"get-device">>, <<"get-devices">>,
                       <<"get-energy">>, <<"get-all-energy">>, <<"test">>}
    /\ stdout' = Append(stdout, [error |-> "Unknown command", command |-> command])
    /\ exc' = "SystemExit" /\ pc' = "except"
    /\ UNCHANGED <<argv, lookups, timeout, ips, found, idx, devices, stderr,
                   exitCode, dev, out>>

\* the batch has returned to main: print its result
WriteResult ==
    /\ pc = "batch_ret"
    /\ stdout' = Append(stdout,
                        IF command = <<"test">> THEN TestReport(devices, TestByIp)
                        ELSE [devices |-> devices])
    /\ pc' = "exit"
    /\ UNCHANGED <<argv, lookups, exc, timeout, ips, found, idx, devices, stderr,
                   exitCode, dev, out>>

\* except Exception as e: print the error object; sys.exit(1)
HandleException ==
    /\ pc = "except" /\ IsException(exc)
    /\ stdout' = Append(stdout, [error |-> exc])
    /\ exc' = "SystemExit"
    /\ pc' = "exit"
    /\ UNCHANGED <<argv, lookups, timeout, ips, found, idx, devices, stderr,
                   exitCode, dev, out>>

\* an exception that `except Exception` does not catch leaves main
Propagate ==
    /\ pc = "except" /\ ~ IsException(exc)
    /\ pc' = "exit"
    /\ UNCHANGED <<mainVars, dev, out>>

\* asyncio.run(main()) returns or SystemExit(1) ends the process
ProcessExit ==
    /\ pc = "exit"
    /\ exitCode' = IF exc = "SystemExit" THEN 1 ELSE 0
    /\ pc' = "done"
    /\ UNCHANGED <<argv, lookups, exc, timeout, ips, found, idx, devices,
                   stdout, stderr, dev, out>>

Next ==
    \/ NoCommand \/ CmdDiscover \/ DiscoverCall \/ DiscoverStep \/ DiscoverEnd
    \/ CmdGetDevice \/ GetDeviceCall
    \/ CmdGetDevices \/ GetDevicesStep \/ GetDevicesEnd
    \/ CmdGetEnergy \/ GetEnergyCall
    \/ CmdGetAllEnergy \/ GetAllEnergyStep \/ GetAllEnergyEnd
    \/ CmdTest \/ CmdUnknown \/ WriteResult
    \/ HandleException \/ Propagate \/ ProcessExit

Spec == Init /\ [][Next]_vars

(***************************************************************************)
(* Claims about main and the batch operations (Spec)                       *)
(***************************************************************************)
Done == pc = "done"

Is(c) == Argc >= 2 /\ argv[2] = Word(c)

\* the only argument of the inputs that int() accepts
NotInteger(a) == a # Word("7")

\* the IP list as the caller wrote it: blank segments do not count
Requested ==
    LET arg == argv[3]
        keep == {i \in 1..Len(arg) : \E j \in 1..Len(arg[i]) : arg[i][j] # " "}
    IN  Cardinality(keep)

\* the directed batch went through its list (the list argument was given)
DirectedBatchRan == (Is("get-devices") \/ Is("get-all-energy")) /\ Argc >= 3

\* discover_devices was called by the discover command
DiscoverRan == Is("discover") /\ (Argc > 2 => ~ NotInteger(argv[3]))

\* the i-th lookup of the run obtained what the command asks for
Obtained(i) ==
    /\ lookups[i].o \in Fixtures
    /\ Is("get-all-energy") =>
         LET d == Fixture(lookups[i].o, lookups[i].ip)
         IN  "has_emeter" \in DOMAIN d /\ d["has_emeter"] = TRUE

\* the entry the i-th lookup contributes
EntryOf(i) ==
    IF Is("get-all-energy") THEN energy_of(Fixture(lookups[i].o, lookups[i].ip))
    ELSE device_to_dict(Fixture(lookups[i].o, lookups[i].ip))

RECURSIVE ExpectedDirected(_)
ExpectedDirected(n) ==
    IF n = 0 THEN <<>>
    ELSE IF Obtained(n) THEN Append(ExpectedDirected(n - 1), EntryOf(n))
    ELSE ExpectedDirected(n - 1)

RECURSIVE ExpectedFound(_)
ExpectedFound(n) ==
    IF n = 0 THEN <<>>
    ELSE IF found[n].o \in Fixtures
         THEN Append(ExpectedFound(n - 1),
                     device_to_dict(Fixture(found[n].o, found[n].ip)))
    ELSE ExpectedFound(n - 1)

\* C4: in a batch operation a failing device neither stops the batch nor
\* changes the exit code: every requested device is looked up, the printed
\* array holds exactly the entries of the devices that succeeded, in order,
\* and the process exits 0.
C4_PartialFailureIsolation ==
    /\ Done /\ DirectedBatchRan =>
         /\ Len(lookups) = Requested
         /\ stdout = <<[devices |-> ExpectedDirected(Len(lookups))]>>
         /\ exitCode = 0
    /\ Done /\ DiscoverRan =>
         /\ stdout = <<[devices |-> ExpectedFound(Len(found))]>>
         /\ exitCode = 0

\* three devices, the second times out: two entries, one stderr line, exit 0
C4_Witness ==
    /\ Done /\ Is("get-devices") /\ Len(lookups) = 3
    /\ lookups[1].o = "plugA" /\ lookups[2].o = "raise_lookup"
    /\ lookups[3].o = "bulbB"
    /\ Len(stdout[1].devices) = 2 /\ Len(stderr) = 1 /\ exitCode = 0

\* a line of standard error names the address
Diagnosed(ip) ==
    \E k \in 1..Len(stderr) : "ip" \in DOMAIN stderr[k] /\ stderr[k].ip = ip

\* C5: every device requested in a batch either has an entry in the printed
\* result or a line about it on standard error.
C5_NothingSilentlyDropped ==
    /\ Done /\ DirectedBatchRan =>
         \A i \in 1..Len(lookups) :
            \/ /\ lookups[i].o \in Fixtures
               /\ \E k \in 1..Len(stdout[1].devices) :
                     stdout[1].devices[k] = EntryOf(i)
            \/ Diagnosed(lookups[i].ip)
    /\ Done /\ DiscoverRan =>
         \A i \in 1..Len(found) :
            \/ \E k \in 1..Len(stdout[1].devices) :
                  stdout[1].devices[k].host = found[i].ip
            \/ Diagnosed(found[i].ip)

\* the invocation fails at the top level: no command, an unknown command, a
\* missing IP argument, or a timeout argument that is no integer
TopLevelFailure ==
    \/ Argc < 2
    \/ /\ Argc >= 2
       /\ \/ ~ \E c \in CommandWords \ {"reboot"} : Is(c)
          \/ /\ Is("get-device") \/ Is("get-devices") \/ Is("get-energy")
                \/ Is("get-all-energy")
             /\ Argc < 3
          \/ Is("discover") /\ Argc > 2 /\ NotInteger(argv[3])
          \/ /\ Is("test") /\ (Argc <= 2 \/ argv[3] = EmptyArg)
             /\ Argc > 3 /\ NotInteger(argv[4])

\* C6: the exit code is 1 exactly on a top-level failure and 0 otherwise.
C6_ExitCode ==
    Done => /\ exitCode \in {0, 1}
            /\ exitCode = 1 <=> TopLevelFailure

\* both devices of get-devices failed, the result is empty, the exit code is 0
C6_Witness ==
    /\ Done /\ Is("get-devices") /\ Len(lookups) = 2
    /\ lookups[1].o = "raise_lookup" /\ lookups[2].o = "raise_update"
    /\ stdout = <<[devices |-> <<>>]>> /\ exitCode = 0

\* C7: an invocation prints exactly one object on standard output, on every
\* path; a library discovery failure prints on standard error only.
C7_OneObject ==
    /\ Len(stdout) <= 1
    /\ Done => Len(stdout) = 1
    /\ \A k \in 1..Len(stderr) :
          stderr[k].line = "json" => (Done => stdout[1] # [error |-> stderr[k].error])

\* sys.exit(1) raised inside the try block after printing the error object
C7_Witness ==
    /\ Done /\ Is("get-energy") /\ Argc = 2 /\ exc = "SystemExit"
    /\ stdout = <<[error |-> "No IP specified"]>> /\ exitCode = 1

\* C8: get-device and get-energy put a lookup or update error under the
\* device / energy key as an object with exactly the keys error and ip (the
\* requested address); the process exits 0 and prints no top-level error.
C8_SingleDeviceError ==
    Done /\ (Is("get-device") \/ Is("get-energy")) /\ Argc >= 3
         /\ Len(lookups) = 1 /\ lookups[1].o \in {"raise_lookup", "raise_update"}
    => /\ exitCode = 0
       /\ Len(stdout) = 1
       /\ DOMAIN stdout[1] = {IF Is("get-device") THEN "device" ELSE "energy"}
       /\ LET r == IF Is("get-device") THEN stdout[1].device ELSE stdout[1].energy
          IN  /\ DOMAIN r = {"error", "ip"}
              /\ r.ip = JoinArg(argv[3])

C8_Witness ==
    /\ Done /\ Is("get-device") /\ Len(lookups) = 1
    /\ lookups[1].o = "raise_update"
    /\ stdout = <<[device |-> [error |-> "update failed", ip |-> <<"h1">>]]>>
    /\ exitCode = 0

\* C9: no two entries of the array discover prints share a deviceId.
C9_DistinctDeviceIds ==
    Done /\ DiscoverRan =>
        \A i, j \in 1..Len(stdout[1].devices) :
            i # j => stdout[1].devices[i].deviceId # stdout[1].devices[j].deviceId

\* the test command ran one of its two modes (no bad timeout argument)
TestRan == Is("test") /\ ~ TopLevelFailure

\* how many devices the test command obtained
TestObtained ==
    IF Argc > 2 /\ argv[3] # EmptyArg
    THEN Cardinality({i \in 1..Len(lookups) : lookups[i].o \in Fixtures})
    ELSE Cardinality({i \in 1..Len(found) : found[i].o \in Fixtures})

\* C10: test reports success = true with the devices and their count exactly
\* when a device was obtained, otherwise success = false with an error and
\* neither devices nor count; it exits 0 either way.
C10_TestReport ==
    Done /\ TestRan =>
        /\ exitCode = 0
        /\ Len(stdout) = 1
        /\ "success" \in DOMAIN stdout[1]
        /\ stdout[1].success <=> TestObtained >= 1
        /\ stdout[1].success =>
              /\ DOMAIN stdout[1] = {"success", "devices", "count"}
              /\ stdout[1].count = Len(stdout[1].devices)
              /\ stdout[1].count = TestObtained
        /\ ~ stdout[1].success => DOMAIN stdout[1] = {"success", "error"}

\* directed mode: one device raised, one was obtained, success with count 1
C10_Witness ==
    /\ Done /\ Is("test") /\ Len(lookups) = 2
    /\ lookups[1].o = "raise_lookup" /\ lookups[2].o = "noid"
    /\ stdout[1].success /\ stdout[1].count = 1 /\ exitCode = 0

====
